---- MODULE Spec2Model ----
(***************************************************************************)
(* Model of the binance-demo dashboard core:                               *)
(*   - services/binance_client.py: get_client, _get_lot_size_filter,       *)
(*     adjust_quantity_to_lot, place_market_order                          *)
(*   - app.py: the order and market routes                                 *)
(*   - services/indicators.py: add_basic_indicators                        *)
(*                                                                         *)
(* Numbers.  Quantities are Python floats in the code.  Here a quantity is *)
(* an integer count of units of 10^-Scale (decimal fixed point), and every *)
(* number enters the model as the character sequence the program receives  *)
(* (the form field, the exchange's "minQty"/"stepSize" strings), parsed by *)
(* ParseFloat.  Decimal arithmetic is exact; the last-bit rounding of the  *)
(* binary double division is not represented.                              *)
(*                                                                         *)
(* Strings the code takes apart (stepSize, side, symbol, the rendered      *)
(* quantity) are sequences of one-character strings.                       *)
(***************************************************************************)
EXTENDS Integers, Sequences, FiniteSets, TLC

\* Decimal places kept by the fixed-point representation of a float.
Scale == 7

\* Largest number of candles the exchange returns in the model.
MaxCandles == 36

-----------------------------------------------------------------------------
\* Characters, digits and decimal text

Digits == <<"0", "1", "2", "3", "4", "5", "6", "7", "8", "9">>

IsDigit(c) == \E i \in 1..10 : Digits[i] = c

DigitVal(c) == (CHOOSE i \in 1..10 : Digits[i] = c) - 1

DigitChar(d) == Digits[d + 1]

RECURSIVE Pow10(_)
Pow10(k) == IF k <= 0 THEN 1 ELSE 10 * Pow10(k - 1)

Lower == <<"a", "b", "c", "d", "e", "f", "g", "h", "i", "j", "k", "l", "m",
           "n", "o", "p", "q", "r", "s", "t", "u", "v", "w", "x", "y", "z">>

Upper == <<"A", "B", "C", "D", "E", "F", "G", "H", "I", "J", "K", "L", "M",
           "N", "O", "P", "Q", "R", "S", "T", "U", "V", "W", "X", "Y", "Z">>

\* str.upper(), character by character.
UpperChar(c) ==
    IF \E i \in 1..26 : Lower[i] = c
    THEN Upper[CHOOSE i \in 1..26 : Lower[i] = c]
    ELSE c

StrUpper(s) == [i \in 1..Len(s) |-> UpperChar(s[i])]

\* "." in s
HasDot(s) == \E i \in 1..Len(s) : s[i] = "."

\* Position of the first occurrence of c in s, 0 when absent.
IndexOf(s, c) ==
    IF \E i \in 1..Len(s) : s[i] = c
    THEN CHOOSE i \in 1..Len(s) : s[i] = c /\ \A j \in 1..(i - 1) : s[j] # c
    ELSE 0

\* s.rstrip("0")
RECURSIVE RStrip0(_)
RStrip0(s) ==
    IF Len(s) > 0 /\ s[Len(s)] = "0" THEN RStrip0(SubSeq(s, 1, Len(s) - 1)) ELSE s

\* s.split(".")[1]: the text between the first dot and the next one (or the end).
SplitDot1(s) ==
    LET rest == SubSeq(s, IndexOf(s, ".") + 1, Len(s))
        nxt  == IndexOf(rest, ".")
    IN IF nxt = 0 THEN rest ELSE SubSeq(rest, 1, nxt - 1)

AllDigits(s) == \A i \in 1..Len(s) : IsDigit(s[i])

\* Value of a digit sequence read as a natural number.
RECURSIVE DigitsValue(_)
DigitsValue(s) ==
    IF Len(s) = 0 THEN 0
    ELSE 10 * DigitsValue(SubSeq(s, 1, Len(s) - 1)) + DigitVal(s[Len(s)])

\* Value, in units of 10^-Scale, of the digits after a decimal point.
RECURSIVE FracValue(_, _)
FracValue(s, k) ==
    IF Len(s) = 0 \/ k > Scale THEN 0
    ELSE DigitVal(s[1]) * Pow10(Scale - k) + FracValue(Tail(s), k + 1)

\* Unsigned decimal text without exponent: digits [ "." digits ].
PlainOk(s) ==
    LET d == IndexOf(s, ".")
        ip == IF d = 0 THEN s ELSE SubSeq(s, 1, d - 1)
        fp == IF d = 0 THEN << >> ELSE SubSeq(s, d + 1, Len(s))
    IN /\ AllDigits(ip) /\ AllDigits(fp)
       /\ Len(ip) + Len(fp) > 0

PlainValue(s) ==
    LET d == IndexOf(s, ".")
        ip == IF d = 0 THEN s ELSE SubSeq(s, 1, d - 1)
        fp == IF d = 0 THEN << >> ELSE SubSeq(s, d + 1, Len(s))
    IN DigitsValue(ip) * Pow10(Scale) + FracValue(fp, 1)

\* Mantissa text with an optional negative exponent: plain [ "e-" digits ].
UnsignedOk(s) ==
    LET e == IndexOf(s, "e")
    IN IF e = 0 THEN PlainOk(s)
       ELSE /\ PlainOk(SubSeq(s, 1, e - 1))
            /\ Len(s) >= e + 2 /\ s[e + 1] = "-"
            /\ AllDigits(SubSeq(s, e + 2, Len(s)))

UnsignedValue(s) ==
    LET e == IndexOf(s, "e")
    IN IF e = 0 THEN PlainValue(s)
       ELSE PlainValue(SubSeq(s, 1, e - 1))
                \div Pow10(DigitsValue(SubSeq(s, e + 2, Len(s))))

\* float(s): << >> when Python raises ValueError, <<v>> with the value otherwise.
ParseFloat(s) ==
    IF Len(s) > 0 /\ s[1] = "-"
    THEN IF UnsignedOk(Tail(s)) THEN << 0 - UnsignedValue(Tail(s)) >> ELSE << >>
    ELSE IF UnsignedOk(s) THEN << UnsignedValue(s) >> ELSE << >>

\* The decimal digits of a natural number, most significant first.
RECURSIVE NatDigits(_)
NatDigits(n) ==
    IF n < 10 THEN << DigitChar(n) >>
    ELSE Append(NatDigits(n \div 10), DigitChar(n % 10))

\* n written with exactly k digits (leading zeros).
RECURSIVE PadDigits(_, _)
PadDigits(n, k) ==
    IF k <= 0 THEN << >>
    ELSE Append(PadDigits(n \div 10, k - 1), DigitChar(n % 10))

\* str(x) of a non-negative float x (repr): the shortest digits that read back
\* as x; exponent notation when the decimal exponent is below -4.
FloatRepr(n) ==
    IF n = 0 THEN <<"0", ".", "0">>
    ELSE IF n < Pow10(Scale - 4)
    THEN LET sig  == RStrip0(NatDigits(n))
             expo == Scale - (Len(NatDigits(n)) - 1)
             mant == IF Len(sig) = 1 THEN sig
                     ELSE << sig[1], "." >> \o Tail(sig)
         IN mant \o <<"e", "-">> \o PadDigits(expo, 2)
    ELSE LET ip == NatDigits(n \div Pow10(Scale))
             fp == RStrip0(PadDigits(n % Pow10(Scale), Scale))
         IN ip \o <<".">> \o (IF Len(fp) = 0 THEN <<"0">> ELSE fp)

\* float(f"{x:.{decimals}f}") for x >= 0: round to the given number of decimal
\* places, ties to even.
FormatFixed(n, decimals) ==
    IF decimals >= Scale THEN n
    ELSE LET u == Pow10(Scale - decimals)
             q == n \div u
             r == n % u
         IN IF 2 * r > u THEN (q + 1) * u
            ELSE IF 2 * r = u /\ q % 2 = 1 THEN (q + 1) * u
            ELSE q * u

-----------------------------------------------------------------------------
\* Inputs of the order route and the exchange's answers

\* LOT_SIZE filters the exchange may hold for a symbol: the "minQty" and
\* "stepSize" strings as they appear in the symbol info.
LotRules ==
    { [filterType |-> "LOT_SIZE", minQty |-> <<"0", ".", "0", "0", "0", "0", "1", "0", "0", "0">>,
       stepSize |-> <<"0", ".", "0", "0", "0", "0", "1", "0", "0", "0">>],
      [filterType |-> "LOT_SIZE", minQty |-> <<"0", ".", "0", "0", "0", "1">>,
       stepSize |-> <<"0", ".", "0", "0", "0", "0", "1">>],
      [filterType |-> "LOT_SIZE", minQty |-> <<"0", ".", "0", "1", "0", "0", "0", "0", "0", "0">>,
       stepSize |-> <<"0", ".", "0", "1", "0", "0", "0", "0", "0", "0">>],
      [filterType |-> "LOT_SIZE", minQty |-> <<"0", ".", "0", "1", "5">>,
       stepSize |-> <<"0", ".", "0", "1">>],
      [filterType |-> "LOT_SIZE", minQty |-> <<"0", ".", "0", "0", "1">>,
       stepSize |-> <<"0", ".", "0", "1">>],
      [filterType |-> "LOT_SIZE", minQty |-> <<"0", ".", "1">>,
       stepSize |-> <<"0", ".", "0", "0", "0", "0", "0", "0", "0", "0">>],
      [filterType |-> "LOT_SIZE", minQty |-> <<"1">>,
       stepSize |-> <<"1">>],
      [filterType |-> "LOT_SIZE", minQty |-> <<"0", ".", "1">>,
       stepSize |-> <<"0">>] }

PriceFilter == [filterType |-> "PRICE_FILTER", minQty |-> << >>, stepSize |-> << >>]

\* The "quantity" form field values a user submits.
QtyStrs ==
    { <<"0", ".", "0", "0", "1", "5", "6", "7", "8">>,
      <<"0", ".", "0", "0", "1">>,
      <<"0", ".", "0", "0", "5">>,
      <<"0", ".", "0", "0", "0", "0", "1">>,
      <<"0", ".", "0", "0", "0", "0", "9">>,
      <<"0", ".", "4">>,
      <<"1", ".", "6">>,
      <<"2", ".", "5">>,
      <<"0">>,
      <<"-", "1">>,
      <<"a", "b", "c">> }

\* The <side> and <symbol> URL segments.
Sides == { <<"B", "U", "Y">>, <<"s", "e", "l", "l">>, <<"h", "o", "l", "d">> }

Symbols == { <<"b", "t", "c">>, <<"E", "T", "H">>, <<"x", "r", "p">> }

BTC == <<"B", "T", "C">>

ETH == <<"E", "T", "H">>

\* What the exchange knows: BTC carries a LOT_SIZE filter, ETH has trading
\* rules without a LOT_SIZE filter, any other symbol has no metadata.
ExchangeWith(rule) ==
    [sym \in {StrUpper(y) : y \in Symbols} |->
        IF sym = BTC THEN << [filters |-> << PriceFilter, rule >>] >>
        ELSE IF sym = ETH THEN << [filters |-> << PriceFilter >>] >>
        ELSE << >>]

\* Errors the exchange client raises from a REST call.
ExchangeErrors ==
    { [type |-> "BinanceAPIException", msg |-> "APIError(code=-2010)"],
      [type |-> "BinanceRequestException", msg |-> "Invalid Response"] }

ConfigError == [type |-> "BinanceConfigError", msg |-> "API key or secret not configured"]

InvalidSymbol == [type |-> "ValueError", msg |-> "Simbolo invalido"]

NoLotSize == [type |-> "ValueError", msg |-> "Nenhum filtro LOT_SIZE encontrado"]

InvalidSide == [type |-> "ValueError", msg |-> "Side invalido, use BUY ou SELL"]

InvalidQuantity == [type |-> "ValueError", msg |-> "Quantidade deve ser maior que zero"]

-----------------------------------------------------------------------------
VARIABLES
    configured,    \* BINANCE_API_KEY and BINANCE_API_SECRET are both set
    exchange,      \* upper-case symbol -> << >> (no info) or <<symbol info>>
    symbol_in,     \* the <symbol> URL segment of the order route
    side_in,       \* the <side> URL segment of the order route
    qty_str,       \* the "quantity" form field
    pc,            \* position in the order route / place_market_order
    quantity,      \* << >> or <<float(qty_str)>>
    symbol,        \* the symbol as the code holds it (upper-cased by the route)
    side,          \* the side as the code holds it (upper-cased on the way)
    info,          \* << >> or <<what get_symbol_info returned>> (<< >> inside: None)
    lot,           \* << >> or <<the LOT_SIZE filter found>>
    adj_quantity,  \* << >> or <<the value adjust_quantity_to_lot returned>>
    calls,         \* the REST calls made to the exchange, in order
    raised,        \* << >> or <<the error create_order raised>>
    outcome,       \* how place_market_order ended: not yet, return or raise
    flash,         \* the message the order route flashes
    mpc,           \* position in the market route
    heap,          \* DataFrame objects by identity (position in the sequence)
    df,            \* the market route's local df: 0 or a position in heap
    klines,        \* the candles the exchange holds for the symbol
    error_message, \* the market route's error_message: << >> or <<text>>
    shown          \* the rows the market route renders

ordervars == << configured, exchange, symbol_in, side_in, qty_str, pc, quantity,
                symbol, side, info, lot, adj_quantity, calls, raised, outcome, flash >>

marketvars == << mpc, heap, df, klines, error_message, shown >>

vars == << ordervars, info, raised, marketvars >>

-----------------------------------------------------------------------------
\* services/binance_client.py: the order path

\* get_client: << >> when it returns a client, <<error>> when it raises.
GetClient(conf) == IF conf THEN << >> ELSE << ConfigError >>

\* The first LOT_SIZE filter of a filter list, << >> when there is none.
RECURSIVE FirstLotSize(_)
FirstLotSize(filters) ==
    IF Len(filters) = 0 THEN << >>
    ELSE IF Head(filters).filterType = "LOT_SIZE" THEN << Head(filters) >>
    ELSE FirstLotSize(Tail(filters))

\* The lookup with a default rule in place of the missing-LOT_SIZE error.
LotSizeFilterDefault(got) ==
    IF Len(got) = 0 THEN [raised |-> << InvalidSymbol >>, lot |-> << >>]
    ELSE IF Len(FirstLotSize(got[1].filters)) = 0
    THEN [raised |-> << >>,
          lot |-> << [filterType |-> "LOT_SIZE", minQty |-> <<"0">>, stepSize |-> <<"0">>] >>]
    ELSE [raised |-> << >>, lot |-> FirstLotSize(got[1].filters)]

\* _get_lot_size_filter after get_symbol_info answered `got` (<< >>: None).
LotSizeFilter(got) ==
    IF Len(got) = 0 THEN [raised |-> << InvalidSymbol >>, lot |-> << >>]
    ELSE IF Len(FirstLotSize(got[1].filters)) = 0
    THEN [raised |-> << NoLotSize >>, lot |-> << >>]
    ELSE [raised |-> << >>, lot |-> FirstLotSize(got[1].filters)]

\* Decimal places the step string supports.
StepDecimals(step_str) ==
    IF HasDot(step_str) THEN Len(SplitDot1(RStrip0(step_str))) ELSE 0

Max(a, b) == IF a >= b THEN a ELSE b

\* Clamp to the minimum, then floor to a multiple of the step.
Quantize(qty_in, min_qty, step_size) ==
    LET qty == Max(qty_in, min_qty)
    IN IF step_size > 0 THEN (qty \div step_size) * step_size ELSE qty

\* adjust_quantity_to_lot, given the filter found.
AdjustQuantityToLot(f, qty_in) ==
    LET min_qty   == ParseFloat(f.minQty)[1]
        step_size == ParseFloat(f.stepSize)[1]
        step_str  == f.stepSize
    IN FormatFixed(Quantize(qty_in, min_qty, step_size), StepDecimals(step_str))

\* No side check.
SideValidAny(s) == TRUE

\* side in ("BUY", "SELL")

SideValid(s) == s \in { <<"B", "U", "Y">>, <<"S", "E", "L", "L">> }

\* The check with < in place of <=.
QuantityValidZeroOk(q) == ~(q < 0)

\* not (quantity <= 0)

QuantityValid(q) == ~(q <= 0)

\* The quantity argument of create_order.
OrderQuantityArg(adj) == FloatRepr(adj)

\* What place_market_order does with an error create_order raises.
Reraise(e) == e

Call(api, sym, sd, q) == [api |-> api, symbol |-> sym, side |-> sd, quantity |-> q]

NotYet == [kind |-> "none", err |-> << >>, order |-> << >>]

Raise(e) == [kind |-> "raise", err |-> << e >>, order |-> << >>]

Return(o) == [kind |-> "return", err |-> << >>, order |-> << o >>]

\* app.py order(): upper-case the URL segments and read the form field;
\* float() may raise ValueError.
OrderParse ==
    /\ pc = "request"
    /\ symbol' = StrUpper(symbol)
    /\ side' = StrUpper(side)
    /\ IF Len(ParseFloat(qty_str)) = 0
       THEN /\ flash' = [category |-> "danger", text |-> "Quantidade invalida"]
            /\ pc' = "done"
            /\ UNCHANGED quantity
       ELSE /\ quantity' = ParseFloat(qty_str)
            /\ pc' = "get_client"
            /\ UNCHANGED flash
    /\ UNCHANGED << configured, exchange, symbol_in, side_in, qty_str, lot,
                    adj_quantity, calls, outcome, info, raised, marketvars >>

\* place_market_order: client = get_client()
PlaceGetClient ==
    /\ pc = "get_client"
    /\ IF Len(GetClient(configured)) > 0
       THEN /\ outcome' = Raise(GetClient(configured)[1])
            /\ pc' = "respond"
       ELSE /\ pc' = "side"
            /\ UNCHANGED outcome
    /\ UNCHANGED << configured, exchange, symbol_in, side_in, qty_str, quantity, symbol, side,
                    lot, adj_quantity, calls, flash, info, raised, marketvars >>

\* side = side.upper(); reject anything but BUY and SELL.
PlaceValidateSide ==
    /\ pc = "side"
    /\ side' = StrUpper(side)
    /\ IF SideValid(side')
       THEN /\ pc' = "quantity"
            /\ UNCHANGED outcome
       ELSE /\ outcome' = Raise(InvalidSide)
            /\ pc' = "respond"
    /\ UNCHANGED << configured, exchange, symbol_in, side_in, qty_str, quantity,
                    symbol, lot, adj_quantity, calls, flash, info, raised, marketvars >>

\* if quantity <= 0: raise
PlaceValidateQuantity ==
    /\ pc = "quantity"
    /\ IF QuantityValid(quantity[1])
       THEN /\ pc' = "lot_filter"
            /\ UNCHANGED outcome
       ELSE /\ outcome' = Raise(InvalidQuantity)
            /\ pc' = "respond"
    /\ UNCHANGED << configured, exchange, symbol_in, side_in, qty_str, quantity, symbol, side,
                    lot, adj_quantity, calls, flash, info, raised, marketvars >>

\* adjust_quantity_to_lot: lot = _get_lot_size_filter(symbol).  The lookup makes
\* its own client and one get_symbol_info call, which the exchange may fail.
GetLotSizeFilter ==
    /\ pc = "lot_filter"
    /\ IF Len(GetClient(configured)) > 0
       THEN /\ outcome' = Raise(GetClient(configured)[1])
            /\ pc' = "respond"
            /\ UNCHANGED << info, lot, calls >>
       ELSE /\ calls' = Append(calls, Call("get_symbol_info", StrUpper(symbol), << >>, << >>))
            /\ \/ \E e \in ExchangeErrors :
                     /\ outcome' = Raise(e)
                     /\ pc' = "respond"
                     /\ UNCHANGED << info, lot >>
               \/ /\ info' = << exchange[StrUpper(symbol)] >>
                  /\ LET r == LotSizeFilter(info'[1])
                     IN IF Len(r.raised) > 0
                        THEN /\ outcome' = Raise(r.raised[1])
                             /\ pc' = "respond"
                             /\ UNCHANGED lot
                        ELSE /\ lot' = r.lot
                             /\ pc' = "adjust"
                             /\ UNCHANGED outcome
    /\ UNCHANGED << configured, exchange, symbol_in, side_in, qty_str, quantity, symbol, side,
                    adj_quantity, flash, raised, marketvars >>

\* adjust_quantity_to_lot: the arithmetic, and the return to place_market_order.
AdjustQuantity ==
    /\ pc = "adjust"
    /\ adj_quantity' = << AdjustQuantityToLot(lot[1], quantity[1]) >>
    /\ pc' = "create"
    /\ UNCHANGED << configured, exchange, symbol_in, side_in, qty_str, quantity, symbol, side,
                    lot, calls, outcome, flash, info, raised, marketvars >>

\* client.create_order(...): the exchange accepts the order or raises.
CreateOrder ==
    /\ pc = "create"
    /\ calls' = Append(calls, Call("create_order", StrUpper(symbol), side,
                                   OrderQuantityArg(adj_quantity[1])))
    /\ \/ /\ outcome' = Return([orderId |-> Len(calls) + 1])
          /\ UNCHANGED raised
       \/ \E e \in ExchangeErrors :
             /\ raised' = << e >>
             /\ outcome' = Raise(Reraise(e))
    /\ pc' = "respond"
    /\ UNCHANGED << configured, exchange, symbol_in, side_in, qty_str, quantity, symbol, side,
                    info, lot, adj_quantity, flash, marketvars >>

\* app.py order(): flash the result of place_market_order and redirect.
OrderRespond ==
    /\ pc = "respond"
    /\ flash' = IF outcome.kind = "return"
                THEN [category |-> "success", text |-> "Ordem enviada com sucesso"]
                ELSE [category |-> "danger", text |-> outcome.err[1].msg]
    /\ pc' = "done"
    /\ UNCHANGED << configured, exchange, symbol_in, side_in, qty_str, quantity, symbol, side,
                    lot, adj_quantity, calls, outcome, info, raised, marketvars >>

NoFlash == [category |-> "none", text |-> ""]

OrderInit ==
    /\ configured \in BOOLEAN
    /\ exchange \in { ExchangeWith(r) : r \in LotRules }
    /\ symbol_in \in Symbols
    /\ side_in \in Sides
    /\ qty_str \in QtyStrs
    /\ pc = "request"
    /\ quantity = << >>
    /\ symbol = symbol_in
    /\ side = side_in
    /\ info = << >>
    /\ lot = << >>
    /\ adj_quantity = << >>
    /\ calls = << >>
    /\ raised = << >>
    /\ outcome = NotYet
    /\ flash = NoFlash

-----------------------------------------------------------------------------
\* services/indicators.py and the market route
\*
\* A DataFrame is a function from column names to columns; a column is a
\* sequence.  A float cell that may be NaN is << >> (NaN) or <<value>>.  Prices
\* are whole numbers; a rolling mean is the exact fraction [num, den].  The
\* values of the exponential averages (RSI, MACD) are not computed: a defined
\* cell holds "num", and the model keeps where such a cell is defined.

SmaFastWindow == 9

SmaSlowWindow == 21

RsiWindow == 14

MacdFastWindow == 12

MacdSlowWindow == 26

MacdSignWindow == 9

TailRows == 30

CandleCols == {"open_time", "open", "high", "low", "close", "volume", "close_time"}

\* Close-price shapes: [base, step, period] gives close(i) = base + step * (i % period).
Patterns ==
    { [base |-> 100, step |-> 0, period |-> 1],
      [base |-> 100, step |-> 1, period |-> 1000],
      [base |-> 90, step |-> 3, period |-> 4],
      [base |-> 50, step |-> 7, period |-> 5] }

CloseAt(p, i) == p.base + p.step * (i % p.period)

\* The klines the exchange answers: n candles, one per hour, oldest first.
Klines(n, p) ==
    [i \in 1..n |->
        [open_time  |-> 3600 * i,
         open       |-> CloseAt(p, i - 1),
         high       |-> Max(CloseAt(p, i - 1), CloseAt(p, i)) + 1,
         low        |-> CloseAt(p, i - 1) + CloseAt(p, i) - Max(CloseAt(p, i - 1), CloseAt(p, i)),
         close      |-> CloseAt(p, i),
         volume     |-> 10 + (i % 3),
         close_time |-> 3600 * i + 3599]]

\* get_klines_dataframe: one column per field, one row per kline.
DfFromKlines(raw) == [c \in CandleCols |-> [i \in 1..Len(raw) |-> raw[i][c]]]

\* No copy: the same object under another name.
DfAlias(h, r) == [heap |-> h, ref |-> r]

\* df.copy(): a new object with the same columns and values.
DfCopy(h, r) == [heap |-> Append(h, h[r]), ref |-> Len(h) + 1]

\* df[name] = series, on the object r refers to.
SetColumn(h, r, name, series) ==
    [h EXCEPT ![r] = [c \in (DOMAIN h[r]) \cup {name} |->
                          IF c = name THEN series ELSE h[r][c]]]

RECURSIVE SeqSum(_)
SeqSum(s) == IF Len(s) = 0 THEN 0 ELSE Head(s) + SeqSum(Tail(s))

\* The rolling mean with min_periods=1: defined from the first row.
RollingMeanFromStart(series, window) ==
    [i \in 1..Len(series) |->
        << [num |-> SeqSum(SubSeq(series, Max(1, i - window + 1), i)),
            den |-> i - Max(1, i - window + 1) + 1] >>]

\* series.rolling(window).mean(): NaN until `window` values are in the window.
RollingMean(series, window) ==
    [i \in 1..Len(series) |->
        IF i < window THEN << >>
        ELSE << [num |-> SeqSum(SubSeq(series, i - window + 1, i)), den |-> window] >>]

\* Number of non-NaN cells among the first i of a column of optional cells.
RECURSIVE Nobs(_, _)
Nobs(series, i) ==
    IF i = 0 THEN 0
    ELSE Nobs(series, i - 1) + (IF Len(series[i]) > 0 THEN 1 ELSE 0)

\* series.ewm(..., min_periods=m, adjust=False).mean(): NaN until m observations
\* (at least one) have been seen, a number from then on.
EwmMean(series, m) ==
    [i \in 1..Len(series) |-> IF Nobs(series, i) >= Max(m, 1) THEN <<"num">> ELSE << >>]

\* The EMA with fillna on: min_periods = 0.
EmaFillna(series, periods) == EwmMean(series, 0)

\* The indicator library's EMA of `periods`, as MACD(close) uses it with its
\* default fillna=False: ewm(span=periods, min_periods=periods, adjust=False).
Ema(series, periods) == EwmMean(series, periods)

Cells(series) == [i \in 1..Len(series) |-> << series[i] >>]

\* a - b or a / b, cell by cell: NaN where either side is NaN.
CellsCombine(a, b) ==
    [i \in 1..Len(a) |-> IF Len(a[i]) > 0 /\ Len(b[i]) > 0 THEN <<"num">> ELSE << >>]

\* RSIIndicator(close, window).rsi(): the up and down moves (0 at the first row)
\* averaged by ewm(alpha=1/window, min_periods=window).
Rsi(close, window) ==
    LET up == [i \in 1..Len(close) |-> <<"num">>]
        dn == [i \in 1..Len(close) |-> <<"num">>]
    IN CellsCombine(EwmMean(up, window), EwmMean(dn, window))

\* MACD(close).macd(): EMA(fast) - EMA(slow)
MacdLine(close) ==
    CellsCombine(Ema(Cells(close), MacdFastWindow), Ema(Cells(close), MacdSlowWindow))

\* MACD(close).macd_signal(): EMA(sign) of the MACD line
MacdSignal(close) == Ema(MacdLine(close), MacdSignWindow)

\* add_basic_indicators(df): the heap after the call and the object returned.
AddBasicIndicators(h, r) ==
    LET c  == DfCopy(h, r)
        cl == c.heap[c.ref]["close"]
        h1 == SetColumn(c.heap, c.ref, "sma_fast", RollingMean(cl, SmaFastWindow))
        h2 == SetColumn(h1, c.ref, "sma_slow", RollingMean(cl, SmaSlowWindow))
        h3 == SetColumn(h2, c.ref, "rsi", Rsi(cl, RsiWindow))
        h4 == SetColumn(h3, c.ref, "macd", MacdLine(cl))
        h5 == SetColumn(h4, c.ref, "macd_signal", MacdSignal(cl))
    IN [heap |-> h5, ref |-> c.ref]

\* One row of a frame, as the record iterrows() yields.
RowAt(f, i) == [c \in DOMAIN f |-> f[c][i]]

\* df.tail(k): the last k rows, in order.
TailIdx(n, k) == [j \in 1..(IF n < k THEN n ELSE k) |-> (IF n < k THEN 0 ELSE n - k) + j]

\* sort_values("open_time", ascending=False) of the rows at positions idx.
SortDescByOpenTime(f, idx) ==
    [k \in 1..Len(idx) |->
        CHOOSE i \in {idx[j] : j \in 1..Len(idx)} :
            Cardinality({j \in 1..Len(idx) : f["open_time"][idx[j]] > f["open_time"][i]}) = k - 1]

\* f"{x:.2f}" if pd.notna(x) else "-"
CellText(cell) == [dash |-> Len(cell) = 0, val |-> cell]

\* The dict the market route appends for row r.
RenderRow(r) ==
    [open_time   |-> r["open_time"],
     close       |-> r["close"],
     sma_fast    |-> CellText(r["sma_fast"]),
     sma_slow    |-> CellText(r["sma_slow"]),
     rsi         |-> CellText(r["rsi"]),
     macd        |-> CellText(r["macd"]),
     macd_signal |-> CellText(r["macd_signal"])]

\* market(): df = get_klines_dataframe(symbol); the client may be unconfigured
\* and the exchange may fail the call.
FetchKlines ==
    /\ mpc = "request"
    /\ IF Len(GetClient(configured)) > 0
       THEN /\ error_message' = << GetClient(configured)[1].msg >>
            /\ mpc' = "done"
            /\ UNCHANGED << heap, df >>
       ELSE \/ \E e \in ExchangeErrors :
                  /\ error_message' = << e.msg >>
                  /\ mpc' = "done"
                  /\ UNCHANGED << heap, df >>
            \/ /\ heap' = << DfFromKlines(klines) >>
               /\ df' = 1
               /\ mpc' = "indicators"
               /\ UNCHANGED error_message
    /\ UNCHANGED << ordervars, klines, shown >>

\* market(): df = add_basic_indicators(df)
AddIndicators ==
    /\ mpc = "indicators"
    /\ heap' = AddBasicIndicators(heap, df).heap
    /\ df' = AddBasicIndicators(heap, df).ref
    /\ mpc' = "render"
    /\ UNCHANGED << ordervars, klines, error_message, shown >>

\* market(): the last 30 rows, newest first, as display rows.
RenderRows ==
    /\ mpc = "render"
    /\ LET f   == heap[df]
           idx == SortDescByOpenTime(f, TailIdx(Len(f["close"]), TailRows))
       IN shown' = [k \in 1..Len(idx) |-> RenderRow(RowAt(f, idx[k]))]
    /\ mpc' = "done"
    /\ UNCHANGED << ordervars, heap, df, klines, error_message >>

MarketInit ==
    /\ mpc = "request"
    /\ heap = << >>
    /\ df = 0
    /\ klines \in { Klines(n, p) : n \in 0..MaxCandles, p \in Patterns }
    /\ error_message = << >>
    /\ shown = << >>

-----------------------------------------------------------------------------
\* Specifications

OrderIdle ==
    /\ configured \in BOOLEAN
    /\ exchange = ExchangeWith(CHOOSE r \in LotRules : TRUE)
    /\ symbol_in = BTC
    /\ side_in = <<"B", "U", "Y">>
    /\ qty_str = <<"1">>
    /\ pc = "idle"
    /\ quantity = << >>
    /\ symbol = symbol_in
    /\ side = side_in
    /\ info = << >>
    /\ lot = << >>
    /\ adj_quantity = << >>
    /\ calls = << >>
    /\ raised = << >>
    /\ outcome = NotYet
    /\ flash = NoFlash

MarketIdle ==
    /\ mpc = "idle"
    /\ heap = << >>
    /\ df = 0
    /\ klines = << >>
    /\ error_message = << >>
    /\ shown = << >>

\* One order request, from the POST to the redirect.
Init == OrderInit /\ MarketIdle

Next ==
    \/ OrderParse
    \/ PlaceGetClient
    \/ PlaceValidateSide
    \/ PlaceValidateQuantity
    \/ GetLotSizeFilter
    \/ AdjustQuantity
    \/ CreateOrder
    \/ OrderRespond

Spec == Init /\ [][Next]_vars

\* One market page load, from the GET to the rendered rows.
InitMarket ==
    /\ OrderIdle
    /\ MarketInit

NextMarket ==
    \/ FetchKlines
    \/ AddIndicators
    \/ RenderRows

SpecMarket == InitMarket /\ [][NextMarket]_vars

-----------------------------------------------------------------------------
\* Properties of the order path (specification Spec)

Adjusted == Len(adj_quantity) > 0

LotMin == ParseFloat(lot[1].minQty)[1]

LotStep == ParseFloat(lot[1].stepSize)[1]

Responded == pc \in {"respond", "done"} /\ outcome.kind # "none"

OrderCalls == { i \in 1..Len(calls) : calls[i].api = "create_order" }

BuyOrSell == { <<"B", "U", "Y">>, <<"S", "E", "L", "L">> }

\* C1: with step_size > 0 and a requested quantity > 0, the quantity
\* adjust_quantity_to_lot returns is a multiple of step_size and is at least
\* min_quantity, also when min_quantity is no multiple of step_size or is
\* smaller than it.
C1_MultipleAndAtLeastMin ==
    (Adjusted /\ LotStep > 0) =>
        /\ adj_quantity[1] % LotStep = 0
        /\ adj_quantity[1] >= LotMin

\* C2: normalizing is idempotent through the entry point: a returned quantity
\* passes the quantity validation and normalizes to itself under the same rule.
C2_Idempotent ==
    Adjusted =>
        /\ QuantityValid(adj_quantity[1])
        /\ AdjustQuantityToLot(lot[1], adj_quantity[1]) = adj_quantity[1]

\* C3 (as stated): a zero or negative quantity always ends in the
\* invalid-quantity error, whatever the side and the configuration, and no
\* order is submitted.
C3_AlwaysInvalidQuantity ==
    (Responded /\ Len(quantity) > 0 /\ quantity[1] <= 0) =>
        /\ outcome = Raise(InvalidQuantity)
        /\ OrderCalls = {}

\* C3 (amended): a zero or negative quantity never reaches the exchange (no
\* lookup, no order) and never yields a quantity; place_market_order raises
\* the configuration error when the client is not configured, else the
\* invalid-side error when the upper-cased side is neither BUY nor SELL, and
\* the invalid-quantity error exactly when both of those checks pass.
C3_InvalidQuantityAfterConfigAndSide ==
    (Len(quantity) > 0 /\ quantity[1] <= 0) =>
        /\ calls = << >>
        /\ lot = << >>
        /\ adj_quantity = << >>
        /\ pc \notin {"lot_filter", "adjust", "create"}
        /\ Responded =>
              outcome = Raise(IF ~configured THEN ConfigError
                              ELSE IF StrUpper(side_in) \notin BuyOrSell THEN InvalidSide
                              ELSE InvalidQuantity)

C3_Witness ==
    /\ pc = "done"
    /\ Len(quantity) > 0 /\ quantity[1] <= 0
    /\ outcome = Raise(InvalidQuantity)
    /\ flash.category = "danger"

\* C4: quantization is a floor: for step_size > 0 or = 0 the returned quantity
\* never exceeds max(requested, min_quantity), and for step_size > 0 it is the
\* largest multiple of step_size not exceeding that clamped value.
C4_FloorNeverExceeds ==
    Adjusted =>
        LET clamp == Max(quantity[1], LotMin)
        IN /\ adj_quantity[1] <= clamp
           /\ LotStep > 0 =>
                 /\ adj_quantity[1] % LotStep = 0
                 /\ clamp < adj_quantity[1] + LotStep

\* C5: when get_symbol_info returns nothing the lookup fails with the
\* invalid-symbol error, and when the info holds no LOT_SIZE filter it fails
\* with the missing-LOT_SIZE error; the two errors differ, no lot rule and no
\* quantity results, and no order is submitted.
C5_LookupFailures ==
    Len(info) > 0 =>
        LET none  == Len(info[1]) = 0
            nolot == /\ Len(info[1]) > 0
                     /\ \A i \in 1..Len(info[1][1].filters) :
                            info[1][1].filters[i].filterType # "LOT_SIZE"
        IN /\ none => outcome = Raise(InvalidSymbol)
           /\ nolot => outcome = Raise(NoLotSize)
           /\ (none \/ nolot) =>
                 /\ lot = << >>
                 /\ adj_quantity = << >>
                 /\ OrderCalls = {}
                 /\ pc \in {"respond", "done"}
           /\ InvalidSymbol # NoLotSize

C5_Witness ==
    /\ pc = "done"
    /\ Len(info) > 0 /\ Len(info[1]) > 0
    /\ outcome = Raise(NoLotSize)
    /\ calls = << Call("get_symbol_info", ETH, << >>, << >>) >>

\* C6: the quantity handed to create_order is a fixed-point decimal string
\* without exponent notation, for every quantity the normalizer returns.
C6_NoExponent ==
    \A i \in OrderCalls : \A k \in 1..Len(calls[i].quantity) : calls[i].quantity[k] # "e"

\* C10: create_order is called at most once, and only after the client was
\* configured, the upper-cased side was BUY or SELL, the quantity was > 0 and
\* the LOT_SIZE lookup succeeded, in that order; the quantity submitted is the
\* normalized quantity; an error create_order raises reaches the caller as it
\* was raised.
C10_OrderOnlyAfterChecks ==
    /\ Cardinality(OrderCalls) <= 1
    /\ \A i \in OrderCalls :
          /\ configured
          /\ StrUpper(side_in) \in BuyOrSell
          /\ calls[i].side = StrUpper(side_in)
          /\ calls[i].symbol = StrUpper(symbol_in)
          /\ Len(quantity) > 0 /\ quantity[1] > 0
          /\ i = 2 /\ calls[1].api = "get_symbol_info"
          /\ Len(info) > 0 /\ Len(lot) > 0 /\ Adjusted
          /\ ParseFloat(calls[i].quantity) = adj_quantity
    /\ (outcome.kind = "return") => OrderCalls # {}
    /\ Len(raised) > 0 => (OrderCalls # {} /\ outcome = Raise(raised[1]))
    /\ Responded =>
          /\ ~configured => outcome = Raise(ConfigError)
          /\ (configured /\ StrUpper(side_in) \notin BuyOrSell) => outcome = Raise(InvalidSide)
          /\ (configured /\ StrUpper(side_in) \in BuyOrSell /\ quantity[1] <= 0) =>
                 outcome = Raise(InvalidQuantity)

C10_Witness ==
    /\ pc = "done"
    /\ Len(raised) > 0
    /\ OrderCalls = {2}
    /\ outcome.err = raised

-----------------------------------------------------------------------------
\* Properties of the indicator pipeline (specification SpecMarket)

Computed == mpc \in {"render", "done"} /\ df > 0

NRows == Len(klines)

\* The sum of the closes of the candles at positions lo..hi.
RECURSIVE CloseTotal(_, _)
CloseTotal(lo, hi) == IF hi < lo THEN 0 ELSE klines[hi].close + CloseTotal(lo, hi - 1)

\* C7: add_basic_indicators returns one record per input candle (also for no
\* candles), record i carrying candle i's fields unchanged, and leaves the
\* frame it was given unchanged: same columns, same length, same values.
C7_AlignedAndInputUnchanged ==
    Computed =>
        /\ df # 1
        /\ DOMAIN heap[1] = CandleCols
        /\ \A c \in CandleCols :
              /\ Len(heap[1][c]) = NRows
              /\ \A i \in 1..NRows : heap[1][c][i] = klines[i][c]
        /\ \A c \in DOMAIN heap[df] : Len(heap[df][c]) = NRows
        /\ \A c \in CandleCols : \A i \in 1..NRows : heap[df][c][i] = klines[i][c]

C7_Witness ==
    /\ Computed
    /\ NRows >= SmaSlowWindow
    /\ "macd_signal" \in DOMAIN heap[df]
    /\ "macd_signal" \notin DOMAIN heap[1]

\* C8: sma_fast is null at indices 0..7 and defined from index 8 on, sma_slow
\* is null at 0..19 and defined from 20 on; a defined value is the mean of the
\* trailing window of closes; a null is shown as "-", never as a number.
C8_SmaWindows ==
    Computed =>
        /\ \A i \in 1..NRows :
              /\ (heap[df]["sma_fast"][i] = << >>) <=> (i <= 8)
              /\ (heap[df]["sma_slow"][i] = << >>) <=> (i <= 20)
              /\ i > 8 => /\ heap[df]["sma_fast"][i][1].den = 9
                          /\ heap[df]["sma_fast"][i][1].num = CloseTotal(i - 8, i)
              /\ i > 20 => /\ heap[df]["sma_slow"][i][1].den = 21
                           /\ heap[df]["sma_slow"][i][1].num = CloseTotal(i - 20, i)
        /\ mpc = "done" =>
              \A k \in 1..Len(shown) :
                 LET i == shown[k].open_time \div 3600
                 IN /\ shown[k].sma_fast.dash <=> (i <= 8)
                    /\ shown[k].sma_slow.dash <=> (i <= 20)
                    /\ ~shown[k].sma_fast.dash =>
                          shown[k].sma_fast.val = heap[df]["sma_fast"][i]

C8_Witness ==
    /\ mpc = "done"
    /\ NRows >= 25 /\ NRows < TailRows
    /\ Len(shown) = NRows
    /\ shown[1].sma_slow.dash = FALSE
    /\ shown[NRows].sma_fast.dash = TRUE

\* C9 (as stated): for a non-empty candle sequence macd and macd_signal are
\* non-null at every index from the first candle on.
C9_MacdNeverNull ==
    (Computed /\ NRows > 0) =>
        \A i \in 1..NRows :
           /\ heap[df]["macd"][i] # << >>
           /\ heap[df]["macd_signal"][i] # << >>

\* C9 (amended): macd is null at indices 0..24 and non-null from index 25 on
\* (the slow average needs 26 closes); macd_signal is null at indices 0..32
\* and non-null from index 33 on (9 values of the MACD line).
C9_MacdWarmup ==
    Computed =>
        \A i \in 1..NRows :
           /\ (heap[df]["macd"][i] = << >>) <=> (i <= 25)
           /\ (heap[df]["macd_signal"][i] = << >>) <=> (i <= 33)

C9_Witness ==
    /\ Computed
    /\ NRows >= 34
    /\ heap[df]["macd"][25] = << >> /\ heap[df]["macd"][26] # << >>
    /\ heap[df]["macd_signal"][33] = << >> /\ heap[df]["macd_signal"][34] # << >>

====
